---- MODULE Spec2Model ----
(***************************************************************************)
(* State-machine model of nestjs-role-based-auth: the user directory       *)
(* (UserService over the Mongoose user collection), the authentication     *)
(* service (AuthService), the passport strategies and guards, and the HTTP *)
(* endpoints of UserController and AuthController.                         *)
(*                                                                         *)
(* Conventions                                                             *)
(*  - a JavaScript object is a record whose DOMAIN holds exactly the       *)
(*    fields that are present; null / undefined is the empty record;       *)
(*  - a plaintext or stored password is a sequence of symbols, so that a   *)
(*    plaintext and a hash are comparable values;                          *)
(*  - a role array is the set of its elements;                             *)
(*  - the result of a call is Return(value) or Throw(exception, message).  *)
(*  - each handler runs to completion before the next request starts       *)
(*    (specifications Spec, SpecAuth and SpecApp); under SpecRace and      *)
(*    SpecLogin requests interleave at their awaits.                       *)
(***************************************************************************)
EXTENDS Integers, Sequences, FiniteSets, TLC

(* ------------------------------ bounds -------------------------------- *)
\* number of ObjectIds the store hands out before createUser is disabled
MaxId == 2
\* last instant of the clock (unit: one hour)
MaxTime == 2

(* ------------------------------ inputs -------------------------------- *)
\* the usernames and plaintext passwords requests carry (non-empty strings)
Usernames == {"alice", "bob"}
Passwords == {<<"a">>, <<"b">>}
\* the salts bcrypt draws when it hashes
Salts == {"s1"}
\* the clients whose requests can be in progress at the same time
Clients == {"c1", "c2"}
\* the role arrays a body or a document can hold, the empty one included
RoleArrays == SUBSET {"user", "admin"}

\* well-formed ObjectId strings, in the order the store assigns them
ObjectIds == 1 .. MaxId
\* route parameters that are not ObjectIds ('1', 'invalidId')
MalformedIds == {0}

null == [f \in {} |-> 0]

Return(v) == [exc |-> "none", ret |-> v]
Throw(e, m) == [exc |-> e, message |-> m]

Has(obj, f) == f \in DOMAIN obj
\* JavaScript truthiness of a string-valued field: present and not the
\* empty string (written "" for a name, <<>> for a password)
Truthy(obj, f, empty) == Has(obj, f) /\ obj[f] # empty

(* --------------------------- user collection -------------------------- *)
VARIABLES
  users,     \* the documents of the user collection, by _id
  nextId,    \* the next ObjectId the store assigns
  now,       \* the clock
  held,      \* the access token the client received last (null: none)
  request,   \* the request handled last
  response,  \* its response
  pending    \* per client, the call of UserService that is suspended at an
             \* await (null: none)

vars == <<users, nextId, now, held, request, response, pending>>

\* Types.ObjectId.isValid
isValid(id) == id \in ObjectIds

\* Model.findById: the document with that _id or null; casting a malformed
\* id to ObjectId fails with a CastError
findById(db, id) ==
  IF ~isValid(id) THEN Throw("CastError", <<"Cast to ObjectId failed", id>>)
  ELSE IF id \in DOMAIN db THEN Return(db[id]) ELSE Return(null)

\* Model.exists({ _id: id }): the filter is cast like that of findById
exists(db, id) ==
  IF ~isValid(id) THEN Throw("CastError", <<"Cast to ObjectId failed", id>>)
  ELSE Return(id \in DOMAIN db)

\* Model.find(): every document, in _id order
find(db) ==
  LET upTo[i \in 0 .. MaxId] ==
        IF i = 0 THEN <<>>
        ELSE IF i \in DOMAIN db THEN Append(upTo[i - 1], db[i])
        ELSE upTo[i - 1]
  IN upTo[MaxId]

\* Model.findOne({ username }): the first match in _id order, or null
findOne(db, username) ==
  LET hits == {i \in DOMAIN db : db[i].username = username}
  IN IF hits = {} THEN null
     ELSE db[CHOOSE i \in hits : \A j \in hits : i <= j]

\* Model.create + User schema: roles default to ['user']
create(db, id, fields) ==
  [i \in DOMAIN db \cup {id} |->
     IF i = id
     THEN [_id |-> id, username |-> fields.username,
           password |-> fields.password,
           roles |-> IF Has(fields, "roles") THEN fields.roles ELSE {"user"}]
     ELSE db[i]]

\* document.save()
save(db, doc) == [db EXCEPT ![doc._id] = doc]

\* Model.findByIdAndDelete
findByIdAndDelete(db, id) == [i \in DOMAIN db \ {id} |-> db[i]]

(* --------------------------- password hasher -------------------------- *)
\* bcrypt.hash: version tag, salt, digest of the plaintext
hashPassword(password, salt) == <<"$2b$", salt>> \o password

\* variant of comparePassword: any well-formed hash matches
comparePasswordAny(password, storedPasswordHash) ==
  /\ Len(storedPasswordHash) >= 2
  /\ storedPasswordHash[1] = "$2b$"

\* bcrypt.compare: re-hash with the stored salt and compare
comparePassword(password, storedPasswordHash) ==
  /\ Len(storedPasswordHash) >= 2
  /\ storedPasswordHash[1] = "$2b$"
  /\ hashPassword(password, storedPasswordHash[2]) = storedPasswordHash

(* ----------------------------- UserService ---------------------------- *)
getAllUsers(db) == Return(find(db))

\* variant of getUserById: a missing document is returned as null
getUserByIdOrNull(db, id) ==
  IF ~isValid(id) THEN Return(null) ELSE Return(findById(db, id).ret)

getUserById(db, id) ==
  IF ~isValid(id)
  THEN Throw("NotFoundException", <<"User with id", id, "does not exist">>)
  ELSE LET user == findById(db, id).ret
       IN IF user = null
          THEN Throw("NotFoundException",
                     <<"User with id", id, "does not exist">>)
          ELSE Return(user)

getUserByUsername(db, username) ==
  LET user == findOne(db, username)
  IN IF user = null
     THEN Throw("NotFoundException",
                <<"User with name", username, "does not exist">>)
     ELSE Return(user)

\* variant of createUser: no lookup of the username before the insert
createUserNoCheck(db, id, user, salt) ==
  [out |-> Return(null),
   db |-> create(db, id,
                 [username |-> user.username,
                  password |-> hashPassword(user.password, salt)])]

\* variant of createUser: the password is stored as submitted
createUserPlain(db, id, user, salt) ==
  LET existingUser == findOne(db, user.username)
  IN IF existingUser # null
     THEN [out |-> Throw("ConflictException",
                         <<"Username", user.username, "already exists">>),
           db |-> db]
     ELSE [out |-> Return(null),
           db |-> create(db, id,
                         [username |-> user.username,
                          password |-> user.password])]

\* variant of createUser: roles in the candidate are passed to create
createUserTakesRoles(db, id, user, salt) ==
  LET existingUser == findOne(db, user.username)
  IN IF existingUser # null
     THEN [out |-> Throw("ConflictException",
                         <<"Username", user.username, "already exists">>),
           db |-> db]
     ELSE [out |-> Return(null),
           db |-> create(db, id,
                         [f \in DOMAIN user |->
                            IF f = "password"
                            THEN hashPassword(user.password, salt)
                            ELSE user[f]])]

\* returns the outcome and the collection after the call
createUser(db, id, user, salt) ==
  LET existingUser == findOne(db, user.username)
  IN IF existingUser # null
     THEN [out |-> Throw("ConflictException",
                         <<"Username", user.username, "already exists">>),
           db |-> db]
     ELSE [out |-> Return(null),
           db |-> create(db, id,
                         [username |-> user.username,
                          password |-> hashPassword(user.password, salt)])]

\* variant of updateUserById: the new password is saved before the
\* username is looked up
updateUserByIdEagerSave(db, id, user, salt) ==
  LET found == findById(db, id)
  IN IF found.exc # "none" THEN [out |-> found, db |-> db]
     ELSE IF found.ret = null
     THEN [out |-> Throw("NotFoundException",
                         <<"User with id", id, "does not exist">>),
           db |-> db]
     ELSE
       LET userDb == found.ret
           u0 == IF Truthy(user, "password", <<>>)
                 THEN [userDb EXCEPT
                         !.password = hashPassword(user.password, salt)]
                 ELSE userDb
           db0 == save(db, u0)
           rename == Truthy(user, "username", "")
                       /\ user.username # userDb.username
       IN IF rename /\ findOne(db0, user.username) # null
          THEN [out |-> Throw("ConflictException",
                              <<"Username", user.username, "already exists">>),
                db |-> db0]
          ELSE
            LET u1 == IF rename
                      THEN [u0 EXCEPT !.username = user.username]
                      ELSE u0
                u3 == IF Has(user, "roles")
                      THEN [u1 EXCEPT !.roles = user.roles]
                      ELSE u1
            IN [out |-> Return(null), db |-> save(db0, u3)]

\* variant of updateUserById: a full replacement, roles left out of the body
\* fall back to the schema default
updateUserByIdReplace(db, id, user, salt) ==
  LET found == findById(db, id)
  IN IF found.exc # "none" THEN [out |-> found, db |-> db]
     ELSE IF found.ret = null
     THEN [out |-> Throw("NotFoundException",
                         <<"User with id", id, "does not exist">>),
           db |-> db]
     ELSE
       LET userDb == found.ret
           rename == Truthy(user, "username", "")
                       /\ user.username # userDb.username
       IN IF rename /\ findOne(db, user.username) # null
          THEN [out |-> Throw("ConflictException",
                              <<"Username", user.username, "already exists">>),
                db |-> db]
          ELSE
            LET u1 == IF rename
                      THEN [userDb EXCEPT !.username = user.username]
                      ELSE userDb
                u2 == IF Truthy(user, "password", <<>>)
                      THEN [u1 EXCEPT
                              !.password = hashPassword(user.password, salt)]
                      ELSE u1
                u3 == IF Has(user, "roles")
                      THEN [u2 EXCEPT !.roles = user.roles]
                      ELSE [u2 EXCEPT !.roles = {"user"}]
            IN [out |-> Return(null), db |-> save(db, u3)]

updateUserById(db, id, user, salt) ==
  LET found == findById(db, id)
  IN IF found.exc # "none" THEN [out |-> found, db |-> db]
     ELSE IF found.ret = null
     THEN [out |-> Throw("NotFoundException",
                         <<"User with id", id, "does not exist">>),
           db |-> db]
     ELSE
       LET userDb == found.ret
           rename == Truthy(user, "username", "")
                       /\ user.username # userDb.username
       IN IF rename /\ findOne(db, user.username) # null
          THEN [out |-> Throw("ConflictException",
                              <<"Username", user.username, "already exists">>),
                db |-> db]
          ELSE
            LET u1 == IF rename
                      THEN [userDb EXCEPT !.username = user.username]
                      ELSE userDb
                u2 == IF Truthy(user, "password", <<>>)
                      THEN [u1 EXCEPT
                              !.password = hashPassword(user.password, salt)]
                      ELSE u1
                u3 == IF Has(user, "roles")
                      THEN [u2 EXCEPT !.roles = user.roles]
                      ELSE u2
            IN [out |-> Return(null), db |-> save(db, u3)]

\* variant of patchUserById: a supplied password is not applied
patchUserByIdKeepPassword(db, id, partialUser, salt) ==
  LET found == findById(db, id)
  IN IF found.exc # "none" THEN [out |-> found, db |-> db]
     ELSE IF found.ret = null
     THEN [out |-> Throw("NotFoundException",
                         <<"User with id", id, "does not exist">>),
           db |-> db]
     ELSE
       LET userDb == found.ret
           rename == Truthy(partialUser, "username", "")
                       /\ partialUser.username # userDb.username
       IN IF rename /\ findOne(db, partialUser.username) # null
          THEN [out |-> Throw("ConflictException",
                              <<"Username", partialUser.username,
                                "already exists">>),
                db |-> db]
          ELSE
            LET u1 == IF rename
                      THEN [userDb EXCEPT !.username = partialUser.username]
                      ELSE userDb
                u3 == IF Has(partialUser, "roles")
                      THEN [u1 EXCEPT !.roles = partialUser.roles]
                      ELSE u1
            IN [out |-> Return(null), db |-> save(db, u3)]

\* variant of patchUserById: the uniqueness lookup runs whenever a username
\* is supplied, the current one included
patchUserByIdAlwaysLookup(db, id, partialUser, salt) ==
  LET found == findById(db, id)
  IN IF found.exc # "none" THEN [out |-> found, db |-> db]
     ELSE IF found.ret = null
     THEN [out |-> Throw("NotFoundException",
                         <<"User with id", id, "does not exist">>),
           db |-> db]
     ELSE
       LET userDb == found.ret
           rename == Truthy(partialUser, "username", "")
       IN IF rename /\ findOne(db, partialUser.username) # null
          THEN [out |-> Throw("ConflictException",
                              <<"Username", partialUser.username,
                                "already exists">>),
                db |-> db]
          ELSE
            LET u1 == IF rename
                      THEN [userDb EXCEPT !.username = partialUser.username]
                      ELSE userDb
                u2 == IF Truthy(partialUser, "password", <<>>)
                      THEN [u1 EXCEPT !.password =
                              hashPassword(partialUser.password, salt)]
                      ELSE u1
                u3 == IF Has(partialUser, "roles")
                      THEN [u2 EXCEPT !.roles = partialUser.roles]
                      ELSE u2
            IN [out |-> Return(null), db |-> save(db, u3)]

patchUserById(db, id, partialUser, salt) ==
  LET found == findById(db, id)
  IN IF found.exc # "none" THEN [out |-> found, db |-> db]
     ELSE IF found.ret = null
     THEN [out |-> Throw("NotFoundException",
                         <<"User with id", id, "does not exist">>),
           db |-> db]
     ELSE
       LET userDb == found.ret
           rename == Truthy(partialUser, "username", "")
                       /\ partialUser.username # userDb.username
       IN IF rename /\ findOne(db, partialUser.username) # null
          THEN [out |-> Throw("ConflictException",
                              <<"Username", partialUser.username,
                                "already exists">>),
                db |-> db]
          ELSE
            LET u1 == IF rename
                      THEN [userDb EXCEPT !.username = partialUser.username]
                      ELSE userDb
                u2 == IF Truthy(partialUser, "password", <<>>)
                      THEN [u1 EXCEPT !.password =
                              hashPassword(partialUser.password, salt)]
                      ELSE u1
                u3 == IF Has(partialUser, "roles")
                      THEN [u2 EXCEPT !.roles = partialUser.roles]
                      ELSE u2
            IN [out |-> Return(null), db |-> save(db, u3)]

\* createUser up to its first await: the lookup of the username
createUserLookup(db, user) ==
  IF findOne(db, user.username) # null
  THEN Throw("ConflictException",
             <<"Username", user.username, "already exists">>)
  ELSE Return(null)

\* variant of createUserInsert: the insert itself refuses a username that a
\* document holds, as under a unique index
createUserInsertUnique(db, id, user, salt) ==
  IF findOne(db, user.username) # null
  THEN [out |-> Throw("ConflictException",
                      <<"Username", user.username, "already exists">>),
        db |-> db]
  ELSE [out |-> Return(null),
        db |-> create(db, id,
                      [username |-> user.username,
                       password |-> hashPassword(user.password, salt)])]

\* createUser after the lookup: hash, create, save
createUserInsert(db, id, user, salt) ==
  [out |-> Return(null),
   db |-> create(db, id,
                 [username |-> user.username,
                  password |-> hashPassword(user.password, salt)])]

\* patchUserById up to its first await: the document with the id
patchUserFind(db, id) ==
  LET found == findById(db, id)
  IN IF found.exc # "none" THEN found
     ELSE IF found.ret = null
     THEN Throw("NotFoundException", <<"User with id", id, "does not exist">>)
     ELSE found

\* the test that guards the uniqueness lookup of patchUserById
patchUserRenames(userDb, partialUser) ==
  Truthy(partialUser, "username", "") /\ partialUser.username # userDb.username

\* patchUserById at its second await: the lookup of the new username
patchUserLookup(db, partialUser) ==
  IF findOne(db, partialUser.username) # null
  THEN Throw("ConflictException",
             <<"Username", partialUser.username, "already exists">>)
  ELSE Return(null)

\* patchUserById after the lookup: the assignments to the document read at
\* the first await, then save, which writes the paths that were modified
patchUserSave(db, userDb, partialUser, salt) ==
  LET u1 == IF patchUserRenames(userDb, partialUser)
            THEN [userDb EXCEPT !.username = partialUser.username]
            ELSE userDb
      u2 == IF Truthy(partialUser, "password", <<>>)
            THEN [u1 EXCEPT !.password =
                    hashPassword(partialUser.password, salt)]
            ELSE u1
      u3 == IF Has(partialUser, "roles")
            THEN [u2 EXCEPT !.roles = partialUser.roles]
            ELSE u2
      modified == {f \in DOMAIN u3 : u3[f] # userDb[f]}
      stored == db[userDb._id]
  IN [out |-> Return(null),
      db |-> save(db, [f \in DOMAIN stored |->
                         IF f \in modified THEN u3[f] ELSE stored[f]])]

deleteUserById(db, id) ==
  LET userExists == exists(db, id)
  IN IF userExists.exc # "none" THEN [out |-> userExists, db |-> db]
     ELSE IF ~userExists.ret
     THEN [out |-> Throw("NotFoundException",
                         <<"User with id", id, "does not exist">>),
           db |-> db]
     ELSE [out |-> Return(null), db |-> findByIdAndDelete(db, id)]

(* ----------------------------- Token service --------------------------- *)
\* role.enum
Role == [Admin |-> "admin", User |-> "user"]

\* JwtModule.register: secret and signOptions.expiresIn ('1h')
JWT_SECRET == "secret"
JWT_EXPIRATION == 1

\* JwtService.sign: the signature covers the claims and is made with the key
sign(payload, t) ==
  LET claims == [payload |-> payload, iat |-> t, exp |-> t + JWT_EXPIRATION]
  IN [claims |-> claims, sig |-> [key |-> JWT_SECRET, of |-> claims]]

\* passport-jwt with the options of JwtStrategy: bearer token, the same
\* secret, ignoreExpiration false
\* variant of jwtVerify: ignoreExpiration is true
jwtVerifyIgnoreExpiration(token, t) ==
  /\ token.sig.key = JWT_SECRET
  /\ token.sig.of = token.claims

jwtVerify(token, t) ==
  /\ token.sig.key = JWT_SECRET
  /\ token.sig.of = token.claims
  /\ t < token.claims.exp

(* ----------------------------- AuthService ---------------------------- *)
\* { password, ...result } = user
omitPassword(user) == [f \in DOMAIN user \ {"password"} |-> user[f]]

\* variant of validateUser: the record is returned as found
validateUserWholeRecord(db, username, password) ==
  LET found == getUserByUsername(db, username)
  IN IF found.exc # "none" THEN found
     ELSE IF comparePassword(password, found.ret.password)
     THEN Return(found.ret)
     ELSE Return(null)

validateUser(db, username, password) ==
  LET found == getUserByUsername(db, username)
  IN IF found.exc # "none" THEN found
     ELSE IF comparePassword(password, found.ret.password)
     THEN Return(omitPassword(found.ret))
     ELSE Return(null)

\* variant of login: the password in the body is compared with the stored
\* hash before a token is issued
loginChecked(db, body, t) ==
  LET found == getUserByUsername(db, body.username)
  IN IF found.exc # "none" THEN found
     ELSE IF ~Has(body, "password")
               \/ ~comparePassword(body.password, found.ret.password)
     THEN Throw("UnauthorizedException", <<"Invalid credentials">>)
     ELSE LET userDB == found.ret
              payload == [username |-> userDB.username,
                          sub |-> userDB._id,
                          roles |-> userDB.roles]
          IN Return([access_token |-> sign(payload, t)])

login(db, body, t) ==
  LET found == getUserByUsername(db, body.username)
  IN IF found.exc # "none" THEN found
     ELSE LET userDB == found.ret
              payload == [username |-> userDB.username,
                          sub |-> userDB._id,
                          roles |-> userDB.roles]
          IN Return([access_token |-> sign(payload, t)])

(* ------------------------- strategies and guards ---------------------- *)
\* variant of LocalStrategy.validate: every failure becomes Unauthorized
LocalStrategyValidateCatchAll(db, username, password) ==
  LET r == validateUser(db, username, password)
  IN IF r.exc # "none" \/ r.ret = null
     THEN Throw("UnauthorizedException", <<"Invalid credentials">>)
     ELSE r

LocalStrategyValidate(db, username, password) ==
  LET r == validateUser(db, username, password)
  IN IF r.exc # "none" THEN r
     ELSE IF r.ret = null
     THEN Throw("UnauthorizedException", <<"Invalid credentials">>)
     ELSE r

\* variant of JwtStrategy.validate: the roles claim is not copied
JwtStrategyValidateNoRoles(payload) ==
  [userId |-> payload.sub, username |-> payload.username]

JwtStrategyValidate(payload) ==
  [userId |-> payload.sub, username |-> payload.username,
   roles |-> payload.roles]

\* req.user = value
attachUser(req, user) ==
  [f \in DOMAIN req \cup {"user"} |-> IF f = "user" THEN user ELSE req[f]]

\* variant of LocalAuthGuard: a rejection does not stop the request
LocalAuthGuardLenient(db, req) ==
  LET r == LocalStrategyValidate(db, req.body.username, req.body.password)
  IN IF r.exc # "none" THEN Return(req) ELSE Return(attachUser(req, r.ret))

\* AuthGuard('local'): credentials from the body, an exception of validate
\* is rethrown, the validated user becomes req.user
LocalAuthGuard(db, req) ==
  LET r == LocalStrategyValidate(db, req.body.username, req.body.password)
  IN IF r.exc # "none" THEN r ELSE Return(attachUser(req, r.ret))

\* AuthGuard('jwt'): no bearer token or a token that does not verify is
\* rejected, otherwise the result of validate becomes req.user
JwtAuthGuard(req, t) ==
  IF ~Has(req, "authorization") \/ ~jwtVerify(req.authorization, t)
  THEN Throw("UnauthorizedException", <<"Unauthorized">>)
  ELSE Return(attachUser(req,
                JwtStrategyValidate(req.authorization.claims.payload)))

\* @HasRoles metadata of the handlers of AuthController (null: none set)
HasRoles(route) ==
  CASE route = "admin" -> [roles |-> {Role.Admin}]
    [] route = "user" -> [roles |-> {Role.User}]
    [] OTHER -> null

\* variant of canActivate: every authenticated identity passes
canActivateAny(metadata, req) ==
  IF ~Has(metadata, "roles") THEN TRUE
  ELSE Has(req, "user")

\* variant of canActivate: admin counts as holding every role
canActivateHierarchy(metadata, req) ==
  IF ~Has(metadata, "roles") THEN TRUE
  ELSE \E role \in metadata.roles :
         Has(req, "user") /\ Has(req.user, "roles")
           /\ (role \in req.user.roles \/ Role.Admin \in req.user.roles)

\* RolesGuard.canActivate
canActivate(metadata, req) ==
  IF ~Has(metadata, "roles") THEN TRUE
  ELSE \E role \in metadata.roles :
         Has(req, "user") /\ Has(req.user, "roles")
           /\ role \in req.user.roles

RolesGuard(req) ==
  IF canActivate(HasRoles(req.route), req) THEN Return(req)
  ELSE Throw("ForbiddenException", <<"Forbidden resource">>)

\* variant of UseGuards: the role check is listed before the token check
UseGuardsRolesFirst(route) ==
  CASE route = "login" -> <<"LocalAuthGuard">>
    [] route = "profile" -> <<"JwtAuthGuard">>
    [] route = "admin" -> <<"RolesGuard", "JwtAuthGuard">>
    [] route = "user" -> <<"RolesGuard", "JwtAuthGuard">>

\* @UseGuards of the handlers of AuthController, in declaration order
UseGuards(route) ==
  CASE route = "login" -> <<"LocalAuthGuard">>
    [] route = "profile" -> <<"JwtAuthGuard">>
    [] route = "admin" -> <<"JwtAuthGuard", "RolesGuard">>
    [] route = "user" -> <<"JwtAuthGuard", "RolesGuard">>

\* the guards of a route run in order; the first rejection ends the request
RECURSIVE runGuards(_, _, _, _)
runGuards(guards, req, db, t) ==
  IF guards = <<>> THEN Return(req)
  ELSE LET g == Head(guards)
           r == CASE g = "LocalAuthGuard" -> LocalAuthGuard(db, req)
                  [] g = "JwtAuthGuard" -> JwtAuthGuard(req, t)
                  [] g = "RolesGuard" -> RolesGuard(req)
       IN IF r.exc # "none" THEN r
          ELSE runGuards(Tail(guards), r.ret, db, t)

(* ----------------------------- HTTP surface --------------------------- *)
\* status code of an exception that reaches the HTTP boundary
HttpStatusOf(exc) ==
  CASE exc = "NotFoundException" -> 404
    [] exc = "ConflictException" -> 409
    [] exc = "UnauthorizedException" -> 401
    [] exc = "ForbiddenException" -> 403
    [] OTHER -> 500

\* the response of a request: out is the outcome of the guards or of the
\* handler, ok the status the handler sets, ran whether the handler started
Reply(out, ok, ran) ==
  IF out.exc = "none"
  THEN [status |-> ok, exc |-> "none", body |-> out.ret, handler |-> ran]
  ELSE [status |-> HttpStatusOf(out.exc), exc |-> out.exc,
        body |-> [message |-> out.message], handler |-> ran]

\* the role arrays a request body supplies: the empty one, or one role
BodyRoleArrays == {{}, {"user"}, {"admin"}}

\* request bodies: every subset of the fields of User may be present
UserBodies ==
  {null}
    \cup [username : Usernames]
    \cup [password : Passwords]
    \cup [roles : BodyRoleArrays]
    \cup [username : Usernames, password : Passwords]
    \cup [username : Usernames, roles : BodyRoleArrays]
    \cup [password : Passwords, roles : BodyRoleArrays]
    \cup [username : Usernames, password : Passwords, roles : BodyRoleArrays]

NewUserBodies ==
  [username : Usernames, password : Passwords]
    \cup [username : Usernames, password : Passwords, roles : BodyRoleArrays]

Init ==
  /\ users = null
  /\ nextId = 1
  /\ now = 0
  /\ held = null
  /\ request = null
  /\ response = null
  /\ pending = [c \in Clients |-> null]

\* the ids a client can put in a path: a malformed one, the ObjectIds the
\* store has assigned, and one it has not assigned yet
RequestIds == MalformedIds \cup {i \in ObjectIds : i <= nextId}

\* POST /api/v1/user
PostUser ==
  \E user \in NewUserBodies, salt \in Salts :
    /\ nextId <= MaxId \/ findOne(users, user.username) # null
    /\ \E r \in {createUser(users, nextId, user, salt)} :
         /\ users' = r.db
         /\ nextId' = IF r.out.exc = "none" THEN nextId + 1 ELSE nextId
         /\ request' = [route |-> "POST /api/v1/user", body |-> user]
         /\ response' = Reply(r.out, 201, TRUE)
    /\ UNCHANGED <<now, held, pending>>

\* PUT /api/v1/user/:id
PutUser ==
  \E id \in RequestIds, user \in UserBodies, salt \in Salts :
    /\ \E r \in {updateUserById(users, id, user, salt)} :
         /\ users' = r.db
         /\ request' = [route |-> "PUT /api/v1/user/:id", id |-> id,
                        body |-> user]
         /\ response' = Reply(r.out, 200, TRUE)
    /\ UNCHANGED <<nextId, now, held, pending>>

\* variant of PatchUser: the route is behind the token check, and the
\* request carries no token
PatchUserGuarded ==
  \E id \in RequestIds, partialUser \in UserBodies :
    /\ request' = [route |-> "PATCH /api/v1/user/:id", id |-> id,
                   body |-> partialUser]
    /\ response' = Reply(Throw("UnauthorizedException", <<"Unauthorized">>),
                         200, FALSE)
    /\ UNCHANGED <<users, nextId, now, held, pending>>

\* PATCH /api/v1/user/:id
PatchUser ==
  \E id \in RequestIds, partialUser \in UserBodies, salt \in Salts :
    /\ \E r \in {patchUserById(users, id, partialUser, salt)} :
         /\ users' = r.db
         /\ request' = [route |-> "PATCH /api/v1/user/:id", id |-> id,
                        body |-> partialUser]
         /\ response' = Reply(r.out, 200, TRUE)
    /\ UNCHANGED <<nextId, now, held, pending>>

\* DELETE /api/v1/user/:id
DeleteUser ==
  \E id \in RequestIds :
    /\ \E r \in {deleteUserById(users, id)} :
         /\ users' = r.db
         /\ request' = [route |-> "DELETE /api/v1/user/:id", id |-> id]
         /\ response' = Reply(r.out, 204, TRUE)
    /\ UNCHANGED <<nextId, now, held, pending>>

\* GET /api/v1/user: 204 for an empty list, 200 otherwise, the list as body
GetAllUsers ==
  \E r \in {getAllUsers(users)} :
    /\ request' = [route |-> "GET /api/v1/user"]
    /\ response' = Reply(r, IF r.ret = <<>> THEN 204 ELSE 200, TRUE)
    /\ UNCHANGED <<users, nextId, now, held, pending>>

\* GET /api/v1/user/:id: the document as body
GetUserById ==
  \E id \in RequestIds :
    /\ \E r \in {getUserById(users, id)} :
         /\ request' = [route |-> "GET /api/v1/user/:id", id |-> id]
         /\ response' =
              IF r.exc = "none" /\ r.ret = null
              THEN [status |-> 404, exc |-> "none",
                    body |-> [message |-> <<"User with id", id, "is empty.">>],
                    handler |-> TRUE]
              ELSE Reply(r, 200, TRUE)
    /\ UNCHANGED <<users, nextId, now, held, pending>>

\* variant of PostLogin: a successful login stores a fresh hash of the
\* password
PostLoginRehash ==
  \E username \in Usernames, password \in Passwords :
    LET req == [route |-> "login",
                body |-> [username |-> username, password |-> password]]
        guarded == runGuards(UseGuards("login"), req, users, now)
        out == IF guarded.exc # "none" THEN guarded
               ELSE login(users, guarded.ret.body, now)
    IN /\ request' = req
       /\ response' = Reply(out, 200, guarded.exc = "none")
       /\ held' = IF out.exc = "none" THEN out.ret.access_token ELSE held
       /\ users' = IF out.exc = "none"
                   THEN [users EXCEPT
                           ![out.ret.access_token.claims.payload.sub].password
                             = hashPassword(password, "s2")]
                   ELSE users
       /\ UNCHANGED <<nextId, now, pending>>

\* POST /api/v1/auth/login: LocalAuthGuard, then AuthController.login
PostLogin ==
  \E username \in Usernames, password \in Passwords :
    LET req == [route |-> "login",
                body |-> [username |-> username, password |-> password]]
        guarded == runGuards(UseGuards("login"), req, users, now)
        out == IF guarded.exc # "none" THEN guarded
               ELSE login(users, guarded.ret.body, now)
    IN /\ request' = req
       /\ response' = Reply(out, 200, guarded.exc = "none")
       /\ held' = IF out.exc = "none" THEN out.ret.access_token ELSE held
       /\ UNCHANGED <<users, nextId, now, pending>>

\* what a client can put in the Authorization header: the token it holds,
\* that token with the roles claim rewritten, or a token signed with
\* another key
tampered(token) ==
  [token EXCEPT !.claims.payload.roles = {Role.Admin}]

forged ==
  LET claims == [payload |-> [username |-> "alice", sub |-> 1,
                               roles |-> {Role.Admin}],
                 iat |-> 0, exp |-> MaxTime + 1]
  IN [claims |-> claims, sig |-> [key |-> "guess", of |-> claims]]

BearerTokens ==
  {forged} \cup (IF held = null THEN {} ELSE {held, tampered(held)})

\* variant of GetAuth: after the guards the user of the token is read from
\* the store, and the request is refused when it is gone or its roles differ
GetAuthLive(route) ==
  \E req \in {[route |-> route]}
               \cup {[route |-> route, authorization |-> tok] :
                       tok \in BearerTokens} :
    LET guarded == runGuards(UseGuards(route), req, users, now)
        out == IF guarded.exc # "none" THEN guarded
               ELSE LET found == findById(users, guarded.ret.user.userId)
                    IN IF \/ found.exc # "none"
                          \/ found.ret = null
                          \/ found.ret.roles # guarded.ret.user.roles
                       THEN Throw("UnauthorizedException", <<"Unauthorized">>)
                       ELSE Return(guarded.ret.user)
    IN /\ request' = req
       /\ response' = Reply(out, 200, guarded.exc = "none")
       /\ UNCHANGED <<users, nextId, now, held, pending>>

\* GET /api/v1/auth/profile, /admin, /user: the guards of the route, then
\* the handler, which answers with req.user
GetAuth(route) ==
  \E req \in {[route |-> route]}
               \cup {[route |-> route, authorization |-> tok] :
                       tok \in BearerTokens} :
    LET guarded == runGuards(UseGuards(route), req, users, now)
        out == IF guarded.exc # "none" THEN guarded
               ELSE Return(guarded.ret.user)
    IN /\ request' = req
       /\ response' = Reply(out, 200, guarded.exc = "none")
       /\ UNCHANGED <<users, nextId, now, held, pending>>

GetProfile == GetAuth("profile")
OnlyAdmin == GetAuth("admin")
OnlyUser == GetAuth("user")

\* time passes
Tick ==
  /\ now < MaxTime
  /\ now' = now + 1
  /\ UNCHANGED <<users, nextId, held, request, response, pending>>

\* the user directory: the requests of UserController, one at a time
Next ==
  \/ GetAllUsers
  \/ GetUserById
  \/ PostUser
  \/ PutUser
  \/ PatchUser
  \/ DeleteUser

Spec == Init /\ [][Next]_vars

\* the collections the requests of UserController can leave behind: at most
\* one document per assigned ObjectId, bcrypt hashes as passwords
Stores ==
  {db \in UNION {[ids -> [_id : ObjectIds, username : Usernames,
                          password : {hashPassword(p, s) :
                                        p \in Passwords, s \in Salts},
                          roles : RoleArrays]] : ids \in SUBSET ObjectIds} :
     /\ \A i \in DOMAIN db : db[i]._id = i
     /\ \A i, j \in DOMAIN db : i # j => db[i].username # db[j].username}

\* authentication and authorization over a collection left by earlier
\* requests: the requests of AuthController, one at a time, and the clock
InitAuth ==
  /\ users \in Stores
  /\ nextId = MaxId + 1
  /\ now = 0
  /\ held = null
  /\ request = null
  /\ response = null
  /\ pending = [c \in Clients |-> null]

NextAuth ==
  \/ PostLogin
  \/ GetProfile
  \/ OnlyAdmin
  \/ OnlyUser
  \/ Tick

SpecAuth == InitAuth /\ [][NextAuth]_vars

(* ------------------- the two controllers side by side ----------------- *)
\* partial records that change one field
OneFieldBodies ==
  [username : Usernames] \cup [password : Passwords]
    \cup [roles : BodyRoleArrays]

\* the request carries no token or the token the client holds
OwnToken ==
  ~Has(request', "authorization") \/ request'.authorization = held

\* the requests of UserController and of AuthController, one at a time,
\* from the empty store, and the clock; a user is created while the store
\* holds none, and changed or deleted while it is live
NextApp ==
  \/ GetAllUsers
  \/ GetUserById
  \/ PostUser /\ users = null /\ ~Has(request'.body, "roles")
  \/ PatchUser /\ request'.id \in DOMAIN users
               /\ request'.body \in OneFieldBodies
  \/ DeleteUser /\ request'.id \in DOMAIN users
  \/ PostLogin
  \/ GetProfile /\ OwnToken
  \/ OnlyAdmin /\ OwnToken
  \/ OnlyUser /\ OwnToken
  \/ Tick

SpecApp == Init /\ [][NextApp]_vars

(* ----------------------- requests in progress at once ----------------- *)
\* the bodies of the requests that run concurrently: new users, and partial
\* records that hold a username
RaceNewUsers == [username : Usernames, password : {<<"a">>}]
RaceRenames == [username : Usernames \cup {"carol"}]

\* the number of calls of createUser that are past the lookup
Inserting == Cardinality({c \in Clients : /\ pending[c] # null
                                          /\ pending[c].pc = "create"})

\* the call of client c returns or throws: its response is sent
Complete(c, req, res) ==
  /\ request' = req
  /\ response' = res
  /\ pending' = [pending EXCEPT ![c] = null]

\* the call of client c is suspended at an await
Suspend(c, call) ==
  /\ pending' = [pending EXCEPT ![c] = call]
  /\ UNCHANGED <<request, response>>

\* POST /api/v1/user, createUser to the end of the lookup
CreateUserLookup(c) ==
  /\ pending[c] = null
  /\ \E user \in RaceNewUsers :
       LET req == [route |-> "POST /api/v1/user", body |-> user]
           looked == createUserLookup(users, user)
       IN /\ looked.exc = "none" => nextId + Inserting <= MaxId
          /\ IF looked.exc # "none"
             THEN Complete(c, req, Reply(looked, 201, TRUE))
             ELSE Suspend(c, req @@ [pc |-> "create"])
  /\ UNCHANGED <<users, nextId, now, held>>

\* createUser from the lookup to the end
CreateUserInsert(c) ==
  /\ pending[c] # null
  /\ pending[c].pc = "create"
  /\ \E salt \in Salts :
       \E r \in {createUserInsert(users, nextId, pending[c].body, salt)} :
         /\ users' = r.db
         /\ nextId' = IF r.out.exc = "none" THEN nextId + 1 ELSE nextId
         /\ Complete(c, [route |-> pending[c].route, body |-> pending[c].body],
                     Reply(r.out, 201, TRUE))
  /\ UNCHANGED <<now, held>>

\* PATCH /api/v1/user/:id, patchUserById to the end of findById
PatchUserFind(c) ==
  /\ pending[c] = null
  /\ \E id \in RequestIds, partialUser \in RaceRenames :
       LET req == [route |-> "PATCH /api/v1/user/:id", id |-> id,
                   body |-> partialUser]
           found == patchUserFind(users, id)
       IN IF found.exc # "none"
          THEN Complete(c, req, Reply(found, 200, TRUE))
          ELSE Suspend(c, req @@ [userDb |-> found.ret,
                                  pc |-> IF patchUserRenames(found.ret,
                                                             partialUser)
                                         THEN "findOne" ELSE "save"])
  /\ UNCHANGED <<users, nextId, now, held>>

\* patchUserById from findById to the end of the lookup of the username
PatchUserLookup(c) ==
  /\ pending[c] # null
  /\ pending[c].pc = "findOne"
  /\ LET looked == patchUserLookup(users, pending[c].body)
     IN IF looked.exc # "none"
        THEN Complete(c, [route |-> pending[c].route, id |-> pending[c].id,
                          body |-> pending[c].body],
                      Reply(looked, 200, TRUE))
        ELSE Suspend(c, [pending[c] EXCEPT !.pc = "save"])
  /\ UNCHANGED <<users, nextId, now, held>>

\* patchUserById from the lookup to the end
PatchUserSave(c) ==
  /\ pending[c] # null
  /\ pending[c].pc = "save"
  /\ \E salt \in Salts :
       \E r \in {patchUserSave(users, pending[c].userDb, pending[c].body,
                               salt)} :
         /\ users' = r.db
         /\ Complete(c, [route |-> pending[c].route, id |-> pending[c].id,
                         body |-> pending[c].body],
                     Reply(r.out, 200, TRUE))
  /\ UNCHANGED <<nextId, now, held>>

NextRace ==
  \E c \in Clients :
    \/ CreateUserLookup(c)
    \/ CreateUserInsert(c)
    \/ PatchUserFind(c)
    \/ PatchUserLookup(c)
    \/ PatchUserSave(c)

\* createUser and patchUserById of two clients, interleaved at their awaits
SpecRace == Init /\ [][NextRace]_vars

\* POST /api/v1/auth/login to the end of LocalAuthGuard: the lookup and the
\* password comparison of validateUser
LoginCheck(c) ==
  /\ pending[c] = null
  /\ \E username \in Usernames, password \in Passwords :
       LET req == [route |-> "login",
                   body |-> [username |-> username, password |-> password]]
           guarded == runGuards(UseGuards("login"), req, users, now)
       IN IF guarded.exc # "none"
          THEN /\ Complete(c, req, Reply(guarded, 200, FALSE))
               /\ UNCHANGED held
          ELSE /\ Suspend(c, guarded.ret @@ [pc |-> "login"])
               /\ UNCHANGED held
  /\ UNCHANGED <<users, nextId, now>>

\* the handler of POST /api/v1/auth/login: AuthService.login(req.body)
LoginIssue(c) ==
  /\ pending[c] # null
  /\ pending[c].pc = "login"
  /\ LET out == login(users, pending[c].body, now)
     IN /\ Complete(c, [route |-> pending[c].route, body |-> pending[c].body],
                    Reply(out, 200, TRUE))
        /\ held' = IF out.exc = "none" THEN out.ret.access_token ELSE held
  /\ UNCHANGED <<users, nextId, now>>

\* one login at a time, interleaved between its guard and its handler with
\* requests of UserController that create, change or delete the user
NextLogin ==
  \/ \E c \in Clients : LoginCheck(c) /\ \A d \in Clients : pending[d] = null
  \/ \E c \in Clients : LoginIssue(c)
  \/ PostUser /\ users = null /\ ~Has(request'.body, "roles")
  \/ PatchUser /\ request'.id \in DOMAIN users
               /\ request'.body \in OneFieldBodies
  \/ DeleteUser /\ request'.id \in DOMAIN users

SpecLogin == Init /\ [][NextLogin]_vars

(* ------------------------------ properties ---------------------------- *)
\* the route of the request handled last ("none" before the first request)
Route(req) == IF Has(req, "route") THEN req.route ELSE "none"

\* some live record has the username
Live(db, username) == \E i \in DOMAIN db : db[i].username = username

\* the plaintext is the one some live record of that name was hashed from
Correct(db, username, password) ==
  \E i \in DOMAIN db, salt \in Salts :
    /\ db[i].username = username
    /\ db[i].password = hashPassword(password, salt)

\* the token is one the token service issued and its lifetime has not elapsed
ValidToken(token, t) ==
  /\ token = sign(token.claims.payload, token.claims.iat)
  /\ t < token.claims.iat + JWT_EXPIRATION

ProtectedRoutes == {"profile", "admin", "user"}

\* this step handles a request of AuthController on the route (under
\* SpecAuth the only step that leaves the request in place is Tick)
AuthStep(route) == Route(request') = route /\ now' = now

\* C1: with requests handled one at a time, no two live user records share
\* a username, after any sequence of createUser, updateUserById,
\* patchUserById and deleteUserById starting from a store with distinct
\* usernames.
C1_UniqueUsernames ==
  \A i, j \in DOMAIN users : i # j => users[i].username # users[j].username

\* two live records, the last request a replace that renamed one of them
C1_Witness ==
  /\ Cardinality(DOMAIN users) = 2
  /\ Route(request) = "PUT /api/v1/user/:id"
  /\ response.status = 200
  /\ Has(request.body, "username")
  /\ users[request.id].username = request.body.username

\* C2: createUser with a username held by a live record fails with Conflict
\* (409) whatever the candidate's password and roles, and inserts nothing.
C2_DuplicateCreateConflicts ==
  [][(Route(request') = "POST /api/v1/user"
        /\ Live(users, request'.body.username))
       => /\ response'.exc = "ConflictException"
          /\ response'.status = 409
          /\ users' = users
          /\ nextId' = nextId]_vars

\* a create was refused for a candidate with roles and with a password other
\* than the one of the record holding the name
C2_Witness ==
  /\ Route(request) = "POST /api/v1/user"
  /\ response.exc = "ConflictException"
  /\ Has(request.body, "roles")
  /\ ~Correct(users, request.body.username, request.body.password)

\* C3: for a live user, POST /login with the correct password returns a
\* token that verifies and whose claims carry the submitted username; with
\* an incorrect password it returns no token and validateUser returns null.
C3_LoginChecksPassword ==
  [][(AuthStep("login") /\ Live(users, request'.body.username))
       => LET username == request'.body.username
              password == request'.body.password
          IN IF Correct(users, username, password)
             THEN /\ response'.status = 200
                  /\ Has(response'.body, "access_token")
                  /\ held' = response'.body.access_token
                  /\ jwtVerify(held', now)
                  /\ JwtStrategyValidate(held'.claims.payload).username
                       = username
             ELSE /\ response'.status # 200
                  /\ ~Has(response'.body, "access_token")
                  /\ held' = held
                  /\ validateUser(users, username, password) = Return(null)
     ]_vars

\* a login was refused for a wrong password after an earlier login succeeded
C3_Witness ==
  /\ held # null
  /\ Route(request) = "login"
  /\ Live(users, request.body.username)
  /\ ~Correct(users, request.body.username, request.body.password)
  /\ response.status = 401

\* C4: a request with a valid token whose roles are exactly {user} is
\* rejected with Forbidden (403) on the admin route and is accepted, with the
\* handler run, on the user route and on the profile route.
C4_UserRoleToken ==
  [][\A route \in ProtectedRoutes :
       (/\ AuthStep(route)
        /\ Has(request', "authorization")
        /\ ValidToken(request'.authorization, now)
        /\ request'.authorization.claims.payload.roles = {"user"})
       => IF route = "admin"
          THEN /\ response'.exc = "ForbiddenException"
               /\ response'.status = 403
               /\ ~response'.handler
          ELSE /\ response'.status = 200
               /\ response'.handler
               /\ response'.body.roles = {"user"}
               /\ response'.body.username
                    = request'.authorization.claims.payload.username
     ]_vars

\* the admin route refused a valid token with roles {user}
C4_Witness ==
  /\ Route(request) = "admin"
  /\ Has(request, "authorization")
  /\ ValidToken(request.authorization, now)
  /\ request.authorization.claims.payload.roles = {"user"}
  /\ response.status = 403

\* C5: no role hierarchy: a valid token with roles exactly {admin} is
\* accepted on the admin route and rejected with Forbidden on the user route;
\* an identity passes a non-empty required-roles list if and only if it
\* holds at least one of the listed roles.
C5_NoRoleHierarchy ==
  [][/\ \A route \in {"admin", "user"} :
          (/\ AuthStep(route)
           /\ Has(request', "authorization")
           /\ ValidToken(request'.authorization, now))
          => LET held_roles == request'.authorization.claims.payload.roles
                 passes == HasRoles(route).roles \cap held_roles # {}
             IN /\ held_roles = {"admin"} => (passes <=> route = "admin")
                /\ passes => response'.status = 200 /\ response'.handler
                /\ ~passes => /\ response'.exc = "ForbiddenException"
                              /\ ~response'.handler
     /\ \A required \in (SUBSET {"user", "admin"}) \ {{}},
           has \in RoleArrays :
          canActivate([roles |-> required], [user |-> [roles |-> has]])
            <=> required \cap has # {}
     ]_vars

\* the user route refused a valid token with roles {admin}
C5_Witness ==
  /\ Route(request) = "user"
  /\ Has(request, "authorization")
  /\ ValidToken(request.authorization, now)
  /\ request.authorization.claims.payload.roles = {"admin"}
  /\ response.exc = "ForbiddenException"

\* C6: on profile, admin and user a request with no token or an invalid
\* token is rejected with Unauthorized (401) and the handler does not run;
\* the token check precedes the role check, so the answer is never Forbidden.
C6_TokenCheckFirst ==
  [][\A route \in ProtectedRoutes :
       (/\ AuthStep(route)
        /\ \/ ~Has(request', "authorization")
           \/ ~ValidToken(request'.authorization, now))
       => /\ response'.exc = "UnauthorizedException"
          /\ response'.status = 401
          /\ ~response'.handler
     ]_vars

\* the admin route answered 401 to a request without a token
C6_Witness ==
  /\ Route(request) = "admin"
  /\ ~Has(request, "authorization")
  /\ response.status = 401
  /\ ~response.handler

\* C7: POST /login with a username of no live record yields NotFound (404,
\* 'User with name <username> does not exist'); with the username of a live
\* record and a wrong password it yields Unauthorized (401, 'Invalid
\* credentials'); neither issues a token.
C7_LoginFailures ==
  [][AuthStep("login")
       => LET username == request'.body.username
              password == request'.body.password
          IN /\ ~Live(users, username)
                  => /\ response'.exc = "NotFoundException"
                     /\ response'.status = 404
                     /\ response'.body
                          = [message |-> <<"User with name", username,
                                           "does not exist">>]
                     /\ held' = held
             /\ (Live(users, username)
                   /\ ~Correct(users, username, password))
                  => /\ response'.exc = "UnauthorizedException"
                     /\ response'.status = 401
                     /\ response'.body
                          = [message |-> <<"Invalid credentials">>]
                     /\ held' = held
     ]_vars

\* a login with an unknown username was answered 404 with the message
C7_Witness ==
  /\ Route(request) = "login"
  /\ ~Live(users, request.body.username)
  /\ response.status = 404
  /\ response.body = [message |-> <<"User with name", request.body.username,
                                    "does not exist">>]

\* C8 as stated: in the local check of POST /login, when validateUser
\* returns null or the username lookup fails, the request is rejected with
\* Unauthorized before the login handler runs.
C8_Original ==
  [][AuthStep("login")
       => LET v == validateUser(users, request'.body.username,
                                request'.body.password)
          IN (v.exc # "none" \/ v.ret = null)
               => /\ response'.exc = "UnauthorizedException"
                  /\ ~response'.handler
     ]_vars

\* C8 amended: in the local check of POST /login the request is rejected
\* before the login handler runs, with Unauthorized when validateUser
\* returns null and with the NotFound of the lookup when the lookup fails.
C8_LocalCheckRejects ==
  [][AuthStep("login")
       => LET v == validateUser(users, request'.body.username,
                                request'.body.password)
          IN /\ (v.exc = "none" /\ v.ret = null)
                  => /\ response'.exc = "UnauthorizedException"
                     /\ ~response'.handler
             /\ v.exc # "none"
                  => /\ ~Live(users, request'.body.username)
                     /\ response'.exc = "NotFoundException"
                     /\ ~response'.handler
     ]_vars

\* the local check rejected a login whose lookup failed, in a store that
\* holds other users
C8_Witness ==
  /\ Route(request) = "login"
  /\ users # null
  /\ validateUser(users, request.body.username, request.body.password).exc
       = "NotFoundException"
  /\ response.exc = "NotFoundException"
  /\ ~response.handler

\* C9: after every successful createUser(username, plaintext) the record
\* getUserByUsername(username) returns stores an output of the password
\* hasher for the plaintext, and never the plaintext itself.
C9_CreatedPasswordIsHashed ==
  (Route(request) = "POST /api/v1/user" /\ response.status = 201)
    => LET got == getUserByUsername(users, request.body.username)
       IN /\ got.exc = "none"
          /\ \E salt \in Salts :
               got.ret.password = hashPassword(request.body.password, salt)
          /\ got.ret.password # request.body.password

\* a user was created
C9_Witness ==
  /\ Route(request) = "POST /api/v1/user"
  /\ response.status = 201
  /\ Live(users, request.body.username)

\* C10 as stated: deleteUserById on an id that matches no live record fails
\* with NotFound and leaves the store unchanged; on the id of a live record
\* it removes exactly that record, and getUserById on the id then fails
\* with NotFound.
C10_DeleteOriginal ==
  [][Route(request') = "DELETE /api/v1/user/:id"
       => IF request'.id \in DOMAIN users
          THEN /\ response'.status = 204
               /\ users' = [i \in DOMAIN users \ {request'.id} |-> users[i]]
               /\ getUserById(users', request'.id).exc = "NotFoundException"
          ELSE /\ response'.exc = "NotFoundException"
               /\ users' = users
     ]_vars

\* the part of C10 the code meets: the same for ids that are ObjectIds
C10_DeleteObjectId ==
  [][(Route(request') = "DELETE /api/v1/user/:id" /\ isValid(request'.id))
       => IF request'.id \in DOMAIN users
          THEN /\ response'.status = 204
               /\ users' = [i \in DOMAIN users \ {request'.id} |-> users[i]]
               /\ getUserById(users', request'.id).exc = "NotFoundException"
          ELSE /\ response'.exc = "NotFoundException"
               /\ users' = users
     ]_vars

\* the store after an update of the record id with the supplied fields: the
\* username and the roles that were supplied, a hash of the supplied password
Updated(db, id, body, after) ==
  /\ DOMAIN after = DOMAIN db
  /\ \A i \in DOMAIN db \ {id} : after[i] = db[i]
  /\ after[id]._id = id
  /\ after[id].username =
       IF Has(body, "username") THEN body.username ELSE db[id].username
  /\ IF Has(body, "password")
     THEN \E salt \in Salts :
            after[id].password = hashPassword(body.password, salt)
     ELSE after[id].password = db[id].password
  /\ after[id].roles = IF Has(body, "roles") THEN body.roles ELSE db[id].roles

\* C11: patchUserById with a partial record that holds only roles sets the
\* roles and leaves the username and the stored password unchanged; with
\* only a username equal to the current one it leaves the username
\* unchanged, does not fail on the uniqueness lookup, and still saves.
C11_PatchFrame ==
  [][(Route(request') = "PATCH /api/v1/user/:id"
        /\ request'.id \in DOMAIN users)
       => LET id == request'.id
              body == request'.body
          IN /\ DOMAIN body = {"roles"}
                  => /\ response'.status = 200
                     /\ users' = [users EXCEPT ![id].roles = body.roles]
                     /\ users'[id].username = users[id].username
                     /\ users'[id].password = users[id].password
             /\ (DOMAIN body = {"username"}
                   /\ body.username = users[id].username)
                  => /\ response'.status = 200
                     /\ response'.exc = "none"
                     /\ users' = users
                     /\ users'[id].username = body.username
     ]_vars

\* a patch that held only the current username of the record was saved
C11_Witness ==
  /\ Route(request) = "PATCH /api/v1/user/:id"
  /\ request.id \in DOMAIN users
  /\ DOMAIN request.body = {"username"}
  /\ users[request.id].username = request.body.username
  /\ response.status = 200

\* C12 as stated: updateUserById on an id with no live record fails with
\* NotFound; when the supplied username differs from the stored one and is
\* held by another live record it fails with Conflict; otherwise it sets the
\* username, replaces the password by a hash only when a password is
\* supplied, overwrites the roles only when roles are supplied, and saves.
C12_UpdateOriginal ==
  [][Route(request') = "PUT /api/v1/user/:id"
       => LET id == request'.id
              body == request'.body
          IN IF id \notin DOMAIN users
             THEN /\ response'.exc = "NotFoundException"
                  /\ users' = users
             ELSE IF /\ Has(body, "username")
                     /\ body.username # users[id].username
                     /\ Live(users, body.username)
             THEN /\ response'.exc = "ConflictException"
                  /\ users' = users
             ELSE /\ response'.status = 200
                  /\ Updated(users, id, body, users')
     ]_vars

\* the part of C12 the code meets: the same for ids that are ObjectIds
C12_UpdateObjectId ==
  [][(Route(request') = "PUT /api/v1/user/:id" /\ isValid(request'.id))
       => LET id == request'.id
              body == request'.body
          IN IF id \notin DOMAIN users
             THEN /\ response'.exc = "NotFoundException"
                  /\ users' = users
             ELSE IF /\ Has(body, "username")
                     /\ body.username # users[id].username
                     /\ Live(users, body.username)
             THEN /\ response'.exc = "ConflictException"
                  /\ users' = users
             ELSE /\ response'.status = 200
                  /\ Updated(users, id, body, users')
     ]_vars

\* C13: patchUserById and updateUserById have identical semantics: for every
\* store, id and supplied set of fields they produce the same outcome and
\* the same resulting store.
C13_PatchEqualsUpdate ==
  \A id \in MalformedIds \cup ObjectIds, body \in UserBodies, salt \in Salts :
    patchUserById(users, id, body, salt) = updateUserById(users, id, body, salt)

\* a store with a record on which a body that renames it and sets its
\* password and its roles is accepted by both operations, and one on which
\* a body is refused by both with Conflict
C13_Witness ==
  /\ Cardinality(DOMAIN users) = 2
  /\ \E id \in DOMAIN users, salt \in Salts :
       \E body \in [username : Usernames, roles : BodyRoleArrays] :
         /\ updateUserById(users, id, body, salt).out.exc = "ConflictException"
         /\ patchUserById(users, id, body, salt).out.exc = "ConflictException"
  /\ \E id \in DOMAIN users, salt \in Salts :
       \E body \in [password : Passwords, roles : BodyRoleArrays] :
         /\ updateUserById(users, id, body, salt).db # users
         /\ patchUserById(users, id, body, salt).db # users

\* C14: getUserById fails with NotFound when the id is malformed or matches
\* no live record and otherwise returns the record; getUserByUsername fails
\* with NotFound when no live record has the username and otherwise returns
\* a record with that username. Neither ever returns null.
C14_Getters ==
  /\ \A id \in MalformedIds \cup ObjectIds :
       LET got == getUserById(users, id)
       IN /\ got # Return(null)
          /\ IF id \in DOMAIN users
             THEN got = Return(users[id])
             ELSE got.exc = "NotFoundException"
  /\ \A username \in Usernames :
       LET got == getUserByUsername(users, username)
       IN /\ got # Return(null)
          /\ IF Live(users, username)
             THEN /\ got.exc = "none"
                  /\ got.ret.username = username
                  /\ \E i \in DOMAIN users : got.ret = users[i]
             ELSE got.exc = "NotFoundException"
  /\ Route(request) = "GET /api/v1/user/:id"
       => IF request.id \in DOMAIN users
          THEN response.status = 200 /\ response.body = users[request.id]
          ELSE response.status = 404 /\ response.exc = "NotFoundException"

\* GET /api/v1/user/:id was answered with NotFound for the malformed id
\* while the store held a record
C14_Witness ==
  /\ Route(request) = "GET /api/v1/user/:id"
  /\ request.id \in MalformedIds
  /\ response.exc = "NotFoundException"
  /\ users # null
  /\ \E username \in Usernames :
       getUserByUsername(users, username).exc = "NotFoundException"

\* the identity the token check attaches for a live record
IdentityOf(user) ==
  JwtStrategyValidate([username |-> user.username, sub |-> user._id,
                       roles |-> user.roles])

\* C15 as stated: when the required-roles list declared on an endpoint is
\* empty, the role check allows every authenticated identity
\* unconditionally, the same as an absent declaration.
C15_EmptyListAllows ==
  \A i \in DOMAIN users :
    LET req == attachUser([route |-> "profile"], IdentityOf(users[i]))
    IN /\ canActivate(null, req)
       /\ canActivate([roles |-> {}], req)

\* C16 as stated: every live user record has a non-empty role set, in every
\* reachable state, including after updates whose request supplies an
\* empty roles list.
C16_RolesNonEmpty ==
  \A i \in DOMAIN users : users[i].roles # {}

\* C17 as stated: no response of any endpoint (GET user list, GET user by
\* id, login, profile, admin, user) contains the stored password of a user.
C17_NoPasswordInResponse ==
  /\ Route(request) = "GET /api/v1/user"
       => \A k \in 1 .. Len(response.body) :
            ~Has(response.body[k], "password")
  /\ (Route(request) = "GET /api/v1/user/:id" /\ response.status = 200)
       => ~Has(response.body, "password")
  /\ (Route(request) = "login" /\ response.status = 200)
       => ~Has(response.body.access_token.claims.payload, "password")
  /\ (Route(request) \in ProtectedRoutes /\ response.status = 200)
       => ~Has(response.body, "password")

\* C18: a token issued by login is accepted only while its lifetime has not
\* elapsed; once it has expired every request that carries it is rejected
\* with Unauthorized and no identity is attached.
C18_ExpiryChecked ==
  [][\A route \in ProtectedRoutes :
       (/\ AuthStep(route)
        /\ Has(request', "authorization")
        /\ request'.authorization
             = sign(request'.authorization.claims.payload,
                    request'.authorization.claims.iat))
       => LET issued == request'.authorization.claims.iat
          IN IF now < issued + JWT_EXPIRATION
             THEN response'.status # 401
             ELSE /\ response'.exc = "UnauthorizedException"
                  /\ response'.status = 401
                  /\ ~response'.handler
                  /\ ~Has(response'.body, "userId")
     ]_vars

\* the token login issued was presented after its lifetime and refused
C18_Witness ==
  /\ Route(request) \in ProtectedRoutes
  /\ Has(request, "authorization")
  /\ request.authorization = held
  /\ now >= held.claims.exp
  /\ response.status = 401

WriteStep(c) ==
  /\ pending[c] # null
  /\ \/ pending[c].pc = "create"
     \/ /\ pending[c].pc = "save"
        /\ patchUserRenames(pending[c].userDb, pending[c].body)
  /\ pending'[c] = null

\* C19: the uniqueness check and the write are not atomic: when two
\* requests target the same new username (two creates, a create and a
\* rename, or two renames) and both lookups run before either write, both
\* pass the check and both writes happen, whoever holds the username by
\* then, which leaves two live records that share the username.
C19_CheckThenWrite ==
  [][\A c \in Clients :
       WriteStep(c)
       => LET username == pending[c].body.username
              target == IF pending[c].pc = "create" THEN nextId
                        ELSE pending[c].id
          IN /\ response'.exc = "none"
             /\ target \in DOMAIN users'
             /\ users'[target].username = username
             /\ \A i \in DOMAIN users \ {target} : users'[i] = users[i]
     ]_vars

\* two live records share a username, the second written by a request whose
\* lookup had passed
C19_Witness ==
  /\ \E i, j \in DOMAIN users :
       /\ i # j
       /\ users[i].username = users[j].username
       /\ request.body.username = users[i].username
  /\ response.exc = "none"

\* C21: AuthService.login issues a token on lookup success alone: with the
\* username of a live record it returns an access token for that record
\* whatever password, or none, is in the body; it fails with NotFound when
\* no record has the username; it compares no password.
C21_LoginOnLookupOnly ==
  \A body \in [username : Usernames]
                \cup [username : Usernames, password : Passwords] :
    LET got == login(users, body, now)
    IN IF Live(users, body.username)
       THEN /\ got.exc = "none"
            /\ got.ret.access_token = login(users, [username |-> body.username],
                                            now).ret.access_token
            /\ jwtVerify(got.ret.access_token, now)
            /\ \E i \in DOMAIN users :
                 /\ users[i].username = body.username
                 /\ got.ret.access_token.claims.payload
                      = [username |-> body.username, sub |-> i,
                         roles |-> users[i].roles]
       ELSE got.exc = "NotFoundException"

\* the local check has just refused a password for which login, called
\* directly, returns a token
C21_Witness ==
  /\ Route(request) = "login"
  /\ response.status = 401
  /\ ~Correct(users, request.body.username, request.body.password)
  /\ login(users, request.body, now).exc = "none"
  /\ \E username \in Usernames :
       login(users, [username |-> username], now).exc = "NotFoundException"

\* C24: createUser with a username held by no live record inserts exactly
\* one new record with that username and the hashed password, and with role
\* set {user} when the candidate specifies no roles; all other records are
\* unchanged.
C24_CreateInsertsOne ==
  [][(Route(request') = "POST /api/v1/user"
        /\ ~Live(users, request'.body.username))
       => LET body == request'.body
          IN /\ response'.status = 201
             /\ nextId \notin DOMAIN users
             /\ DOMAIN users' = DOMAIN users \cup {nextId}
             /\ \A i \in DOMAIN users : users'[i] = users[i]
             /\ users'[nextId]._id = nextId
             /\ users'[nextId].username = body.username
             /\ \E salt \in Salts :
                  users'[nextId].password = hashPassword(body.password, salt)
             /\ users'[nextId].password # body.password
             /\ ~Has(body, "roles") => users'[nextId].roles = {"user"}
     ]_vars

\* a second record was created from a candidate without roles
C24_Witness ==
  /\ Route(request) = "POST /api/v1/user"
  /\ response.status = 201
  /\ ~Has(request.body, "roles")
  /\ Cardinality(DOMAIN users) = 2
  /\ \E i \in DOMAIN users :
       users[i].username = request.body.username /\ users[i].roles = {"user"}

\* C25: createUser never takes roles from the caller: whatever roles the
\* candidate supplies, the created record's role set is {user}; a record
\* comes to hold another role set only by an updateUserById or
\* patchUserById on it that supplies roles.
C25_RolesOnlyByUpdate ==
  [][/\ (Route(request') = "POST /api/v1/user" /\ response'.status = 201)
          => /\ nextId \in DOMAIN users'
             /\ users'[nextId].roles = {"user"}
     /\ \A i \in DOMAIN users' :
          (/\ users'[i].roles # {"user"}
           /\ i \in DOMAIN users => users'[i].roles # users[i].roles)
          => /\ Route(request') \in {"PUT /api/v1/user/:id",
                                     "PATCH /api/v1/user/:id"}
             /\ request'.id = i
             /\ Has(request'.body, "roles")
             /\ users'[i].roles = request'.body.roles
    ]_vars

\* a candidate that asked for the admin role was created with the role user
C25_Witness ==
  /\ Route(request) = "POST /api/v1/user"
  /\ response.status = 201
  /\ Has(request.body, "roles")
  /\ request.body.roles = {"admin"}
  /\ \E i \in DOMAIN users :
       users[i].username = request.body.username /\ users[i].roles = {"user"}

\* C27: a failed updateUserById or patchUserById leaves the store
\* unchanged: when the request ends in NotFound or Conflict no field of any
\* record has been modified, even if the request supplied a new password or
\* roles.
C27_FailedUpdateNoChange ==
  [][(/\ Route(request') \in {"PUT /api/v1/user/:id", "PATCH /api/v1/user/:id"}
      /\ response'.exc \in {"NotFoundException", "ConflictException"})
       => users' = users
    ]_vars

\* a replace that supplied a password and roles was refused with Conflict
C27_Witness ==
  /\ Route(request) = "PUT /api/v1/user/:id"
  /\ response.exc = "ConflictException"
  /\ Has(request.body, "password")
  /\ Has(request.body, "roles")
  /\ ~Correct(users, users[request.id].username, request.body.password)
  /\ users[request.id].roles # request.body.roles

\* C29: after a successful updateUserById or patchUserById that supplies a
\* password different from the old one, validateUser with the user's
\* username returns null for the old password and the identity for the new
\* one; an update that supplies no password leaves the outcome of
\* validateUser unchanged for every password.
C29_PasswordChange ==
  [][(/\ Route(request') \in {"PUT /api/v1/user/:id", "PATCH /api/v1/user/:id"}
      /\ response'.status = 200)
       => LET body == request'.body
              before == users[request'.id]
              after == users'[request'.id]
          IN IF Has(body, "password")
             THEN /\ validateUser(users', after.username, body.password)
                       = Return(omitPassword(after))
                  /\ \A old \in Passwords :
                       (old # body.password
                          /\ Correct(users, before.username, old))
                       => validateUser(users', after.username, old)
                            = Return(null)
             ELSE \A password \in Passwords :
                    LET was == validateUser(users, before.username, password)
                        is == validateUser(users', after.username, password)
                    IN /\ was.exc = "none"
                       /\ is.exc = "none"
                       /\ (is.ret = null) <=> (was.ret = null)
    ]_vars

\* a patch has just replaced the password of a user by another one
C29_Witness ==
  /\ Route(request) = "PATCH /api/v1/user/:id"
  /\ response.status = 200
  /\ Has(request.body, "password")
  /\ \E old \in Passwords :
       /\ old # request.body.password
       /\ validateUser(users, users[request.id].username, old) = Return(null)
  /\ validateUser(users, users[request.id].username, request.body.password).ret
       # null

\* the routes of UserController that write, and the routes that read
WriteRoutes ==
  {"POST /api/v1/user", "PUT /api/v1/user/:id", "PATCH /api/v1/user/:id",
   "DELETE /api/v1/user/:id"}

ReadRoutes ==
  {"GET /api/v1/user", "GET /api/v1/user/:id", "login"} \cup ProtectedRoutes

\* this step handles a request on one of the routes (the clock stands)
RequestStep(routes) == Route(request') \in routes /\ now' = now

\* this step presents the token the client holds, before its expiry
HeldTokenStep(route) ==
  /\ AuthStep(route)
  /\ held # null
  /\ Has(request', "authorization")
  /\ request'.authorization = held
  /\ now < held.claims.exp

\* C22: issue/verify round trip: the identity the token check attaches for
\* an unexpired token issued by login is {subject id, username, roles} of
\* the user record as it was looked up at login time, with the record's id
\* as subject and nothing else taken from the request.
C22_RoundTrip ==
  [][/\ (AuthStep("login") /\ response'.status = 200)
          => /\ held' = response'.body.access_token
             /\ \E i \in DOMAIN users :
                  /\ users[i].username = request'.body.username
                  /\ held'.claims.payload
                       = [username |-> users[i].username, sub |-> i,
                          roles |-> users[i].roles]
     /\ HeldTokenStep("profile")
          => /\ response'.status = 200
             /\ response'.body
                  = [userId |-> held.claims.payload.sub,
                     username |-> held.claims.payload.username,
                     roles |-> held.claims.payload.roles]
    ]_vars

\* profile answered with the identity of the held token, whose user has
\* since been given other roles
C22_Witness ==
  /\ Route(request) = "profile"
  /\ response.status = 200
  /\ request.authorization = held
  /\ response.body.userId \in DOMAIN users
  /\ users[response.body.userId].username = response.body.username
  /\ users[response.body.userId].roles # response.body.roles

\* C23: tokens cannot be revoked: after a token is issued no store
\* operation (deleting the user, changing its roles, username or password)
\* changes the outcome of the token check or of the role check for it
\* before its expiry; the checks use the roles embedded at issuance and
\* never read the store.
C23_NotRevocable ==
  [][\A route \in ProtectedRoutes :
       HeldTokenStep(route)
       => LET claims == held.claims.payload
              allowed == \/ route = "profile"
                         \/ route = "admin" /\ "admin" \in claims.roles
                         \/ route = "user" /\ "user" \in claims.roles
          IN IF allowed
             THEN /\ response'.status = 200
                  /\ response'.body.userId = claims.sub
                  /\ response'.body.roles = claims.roles
             ELSE /\ response'.status = 403
                  /\ ~response'.handler
    ]_vars

\* the admin route accepted the token of a user that has been deleted
C23_Witness ==
  /\ Route(request) = "admin"
  /\ response.status = 200
  /\ request.authorization = held
  /\ held.claims.payload.sub \notin DOMAIN users

\* C28: only createUser, updateUserById, patchUserById and deleteUserById
\* change the credential store: getAllUsers, getUserById, login with its
\* local check (getUserByUsername, validateUser), the token check and the
\* role check leave every record unchanged, whether they succeed or fail,
\* and nothing else is kept between requests.
C28_OnlyWritersWrite ==
  [][/\ RequestStep(ReadRoutes)
          => /\ users' = users
             /\ nextId' = nextId
             /\ pending' = pending
     /\ users' # users => RequestStep(WriteRoutes)
    ]_vars

\* a login was refused while the store held a record
C28_Witness ==
  /\ Route(request) = "login"
  /\ response.status \in {401, 404}
  /\ users # null
  /\ nextId > 1

\* C30: the user CRUD endpoints run no token check and no role check: a
\* caller that holds no token can create a user, give it the role admin by
\* PATCH /user/:id, log in with its credentials, and be accepted with the
\* token on the endpoint that requires the role admin.
C30_AdminBySelfService ==
  [][/\ RequestStep(WriteRoutes)
          => /\ ~Has(request', "authorization")
             /\ response'.status \notin {401, 403}
     /\ (/\ RequestStep({"PATCH /api/v1/user/:id"})
         /\ request'.id \in DOMAIN users
         /\ DOMAIN request'.body = {"roles"})
          => /\ response'.status = 200
             /\ users'[request'.id].roles = request'.body.roles
     /\ (/\ AuthStep("login")
         /\ Correct(users, request'.body.username, request'.body.password))
          => /\ response'.status = 200
             /\ \E i \in DOMAIN users :
                  /\ users[i].username = request'.body.username
                  /\ held'.claims.payload.sub = i
                  /\ held'.claims.payload.roles = users[i].roles
     /\ (HeldTokenStep("admin") /\ "admin" \in held.claims.payload.roles)
          => response'.status = 200
    ]_vars

\* the admin route accepted the token of a user that the caller created and
\* made admin without a token
C30_Witness ==
  /\ Route(request) = "admin"
  /\ response.status = 200
  /\ request.authorization = held
  /\ held.claims.payload.sub \in DOMAIN users
  /\ users[held.claims.payload.sub].roles = {"admin"}
  /\ held.claims.payload.roles = {"admin"}

\* C26 as stated: on the guarded path every token returned by POST /login
\* carries the subject id and the roles of the very record whose password
\* the local check of the same request verified, under every interleaving
\* with other requests between the lookup of the local check and the
\* handler's second lookup by username.
C26_TokenOfVerifiedRecord ==
  [][\A c \in Clients :
       (/\ pending[c] # null
        /\ pending[c].pc = "login"
        /\ pending'[c] = null
        /\ response'.status = 200)
       => LET verified == pending[c].user
              claims == response'.body.access_token.claims.payload
          IN /\ claims.sub = verified._id
             /\ claims.sub \in DOMAIN users
             /\ claims.roles = users[claims.sub].roles
    ]_vars

\* the part of C26 the code meets: the token carries the subject id and the
\* roles of the record that has the username when the handler runs
C26_TokenOfSecondLookup ==
  [][\A c \in Clients :
       (/\ pending[c] # null
        /\ pending[c].pc = "login"
        /\ pending'[c] = null
        /\ response'.status = 200)
       => LET claims == response'.body.access_token.claims.payload
          IN /\ claims.sub \in DOMAIN users
             /\ users[claims.sub].username = pending[c].body.username
             /\ claims.roles = users[claims.sub].roles
    ]_vars

====
